---- MODULE Spec2Model ----
(***************************************************************************)
(* Model of release/src/module_dependencies/main.py: calculateLevels and   *)
(* removeModulesInIntermediatePaths.  Module names are the integers        *)
(* 1..NumModules; NumModules + 1 is a name that is in no module list.      *)
(* networkx iterates nodes and adjacency in insertion order, which is the  *)
(* order of the input lists; the model leaves those orders open (any root  *)
(* order, any successor order, any of the longest simple paths).           *)
(***************************************************************************)
EXTENDS Integers, Sequences, FiniteSets

\* Number of modules of the run (length of moduleNameList).
NumModules == 4

Modules == 1..NumModules

\* Cap of the wave counter.  An acyclic input ends with level <= NumModules + 2;
\* only an input with a cycle reaches the cap.
MaxLevel == NumModules + 3

\* A name that moduleNameList does not hold.
Stray == NumModules + 1

Names == Modules \cup {Stray}

VARIABLES
    dependents,      \* module['dependents'] of each record of moduleDetailsJSON
    mlevel,          \* module['level'] of each record
    Gnodes,          \* nodes of G
    Gedges,          \* edges of G
    glevel,          \* the 'level' attribute of the nodes of G that have one
    processingList,  \* the frontier of the current wave
    temp,            \* the frontier of the next wave
    level,           \* the wave number
    idx,             \* how many nodes of processingList the for loop has taken
    node,            \* the node of processingList being processed
    successors,      \* the successors list of node (lines 149-151)
    todo,            \* the successors of node the inner loop has not taken yet
    pc,              \* "start", "loop", "succ" or "done"
    run,             \* 1: first call of calculateLevels, 2: call on its own output
    input,           \* the dependents lists the first call was given
    levels1,         \* the levels the first call wrote
    deps1,           \* the dependents lists the first call left
    lastPrune        \* the last pruner call: <<source, destination, list before>>

vars == <<dependents, mlevel, Gnodes, Gedges, glevel, processingList, temp,
          level, idx, node, successors, todo, pc, run, input, levels1, deps1,
          lastPrune>>

Range(s) == {s[i] : i \in 1..Len(s)}

\* All orders of a set, as lists.
Perms(S) ==
    {f \in [1..Cardinality(S) -> S] :
        \A i, j \in 1..Cardinality(S) : i # j => f[i] # f[j]}

\* nx.all_simple_paths(G, source, destination), continued from the path p.
RECURSIVE Extend(_, _, _)
Extend(E, p, t) ==
    LET u == p[Len(p)]
    IN  IF u = t THEN {p}
        ELSE UNION {Extend(E, Append(p, v), t) :
                       v \in {w \in Names : <<u, w>> \in E /\ w \notin Range(p)}}

SimplePaths(E, s, t) == Extend(E, <<s>>, t)

\* A bug: max(...) without key=len does not select by length.
AnySimplePath(E, s, t) == SimplePaths(E, s, t)

\* The values max(nx.all_simple_paths(...), key=len) can return.
LongestPaths(E, s, t) ==
    {p \in SimplePaths(E, s, t) :
        \A q \in SimplePaths(E, s, t) : Len(q) <= Len(p)}

\* A bug: the slice longestPath[1:] keeps the destination.
IntermediatesWithEnd(p) == {p[i] : i \in 2..Len(p)}

\* longestPath[1:-1]
Intermediates(p) == {p[i] : i \in 2..(Len(p) - 1)}

\* list.remove(d) guarded by "d in list": the first match goes, if there is one.
RECURSIVE RemoveFirst(_, _)
RemoveFirst(s, d) ==
    IF s = <<>> THEN <<>>
    ELSE IF Head(s) = d THEN Tail(s)
    ELSE <<Head(s)>> \o RemoveFirst(Tail(s), d)

RECURSIVE RemoveTimes(_, _, _)
RemoveTimes(s, d, k) ==
    IF k = 0 THEN s ELSE RemoveTimes(RemoveFirst(s, d), d, k - 1)

\* removeModulesInIntermediatePaths, for the longest path p that max returned.
removeModulesInIntermediatePaths(deps, source, destination, succs, p) ==
    IF source \in DOMAIN deps
    THEN [deps EXCEPT ![source] =
             RemoveTimes(@, destination,
                         Cardinality(Intermediates(p) \cap succs))]
    ELSE deps

\* A bug: a node keeps the level of the first wave that reached it.
SetLevelFirstVisit(gl, s, lvl) ==
    IF s \in DOMAIN gl /\ gl[s] # 1 THEN gl
    ELSE [n \in DOMAIN gl \cup {s} |-> IF n = s THEN lvl ELSE gl[n]]

\* G.nodes[successor]['level'] = level
SetLevel(gl, s, lvl) ==
    [n \in DOMAIN gl \cup {s} |-> IF n = s THEN lvl ELSE gl[n]]

\* A bug: level = level + 1 inside the for loop over processingList.
LevelPerNode(lvl, k) == lvl + k - 1

\* The value of level while the k-th node of processingList is processed.
WaveLevel(lvl, k) == lvl

\* if successor not in temp: temp.append(successor)
AppendNew(t, s) == IF s \in Range(t) THEN t ELSE Append(t, s)

\* A bug: processingList.extend(temp) instead of processingList = temp.
ExtendFrontier(pl, tmp) == pl \o tmp

\* processingList = temp
NextFrontier(pl, tmp) == tmp

\* The edges lines 130-132 add for the dependents lists deps.
EdgesOf(deps) == {<<m, d>> \in Modules \X Names : d \in Range(deps[m])}

\* Nodes with in degree 0 and out degree # 0 (line 137).
Roots(N, E) ==
    {n \in N : (\A m \in N : <<m, n>> \notin E) /\ (\E m \in N : <<n, m>> \in E)}

Acyclic(E) == \A e \in E : SimplePaths(E, e[2], e[1]) = {}

\* The list getImmediateDependents builds for module m: the names in the order
\* of moduleNameList, the name of dup (if it is an entry of m) twice.
RECURSIVE DepList(_, _, _, _)
DepList(m, E, dup, k) ==
    IF k > NumModules + 1 THEN <<>>
    ELSE (IF <<m, k>> \in E
          THEN (IF dup = <<m, k>> THEN <<k, k>> ELSE <<k>>)
          ELSE <<>>) \o DepList(m, E, dup, k + 1)

NoEdge == <<0, 0>>

\* The state before calculateLevels, for the dependents lists deps.
InitWith(deps) ==
    /\ dependents = deps
    /\ input = deps
    /\ mlevel = [m \in Modules |-> 0]
    /\ Gnodes = {}
    /\ Gedges = {}
    /\ glevel = <<>>
    /\ processingList = <<>>
    /\ temp = <<>>
    /\ level = 2
    /\ idx = 0
    /\ node = 0
    /\ successors = {}
    /\ todo = {}
    /\ pc = "start"
    /\ run = 1
    /\ levels1 = [m \in Modules |-> 0]
    /\ deps1 = deps
    /\ lastPrune = <<0, 0, <<>>>>

\* Acyclic inputs over the module set, at most one entry listed twice.  The
\* modules are numbered along the dependencies (every acyclic graph is one of
\* these up to the names, which the code never compares).
Init ==
    \E E \in SUBSET {e \in Modules \X Modules : e[1] < e[2]} :
        /\ Acyclic(E)
        /\ \E dup \in E \cup {NoEdge} :
              InitWith([m \in Modules |-> DepList(m, E, dup, 1)])

\* Inputs that need not be well formed: an acyclic input with up to two more
\* entries, each of which may close a cycle or name a module outside the set.
InitAny ==
    \E E \in SUBSET {e \in Modules \X Modules : e[1] < e[2]} :
        \E X \in SUBSET {e \in Modules \X Names : e[1] # e[2]} :
            /\ Cardinality(X) <= 2
            /\ InitWith([m \in Modules |-> DepList(m, E \cup X, NoEdge, 1)])

\* Lines 120-145: the graph, the roots, level = 2.
BuildGraph ==
    /\ pc = "start"
    /\ Gnodes' = Modules \cup {e[2] : e \in EdgesOf(dependents)}
    /\ Gedges' = EdgesOf(dependents)
    /\ glevel' = [m \in Modules |-> 1]
    /\ processingList' \in Perms(Roots(Gnodes', Gedges'))
    /\ temp' = <<>>
    /\ level' = 2
    /\ idx' = 0
    /\ pc' = "loop"
    /\ UNCHANGED <<dependents, mlevel, node, successors, todo, run, input,
                   levels1, deps1, lastPrune>>

\* Lines 148-151: the for loop takes the next node and lists its successors.
NextNode ==
    /\ pc = "loop"
    /\ idx < Len(processingList)
    /\ idx' = idx + 1
    /\ node' = processingList[idx + 1]
    /\ successors' = {s \in Gnodes : <<node', s>> \in Gedges}
    /\ todo' = successors'
    /\ pc' = IF todo' = {} THEN "loop" ELSE "succ"
    /\ UNCHANGED <<dependents, mlevel, Gnodes, Gedges, glevel, processingList,
                   temp, level, run, input, levels1, deps1, lastPrune>>

\* Lines 152-156: one successor of node.
ProcessSuccessor ==
    /\ pc = "succ"
    /\ \E s \in todo : \E p \in LongestPaths(Gedges, node, s) :
          /\ dependents' =
                 removeModulesInIntermediatePaths(dependents, node, s, successors, p)
          /\ lastPrune' = <<node, s, dependents[node]>>
          /\ glevel' = SetLevel(glevel, s, WaveLevel(level, idx))
          /\ temp' = AppendNew(temp, s)
          /\ todo' = todo \ {s}
    /\ pc' = IF todo' = {} THEN "loop" ELSE "succ"
    /\ UNCHANGED <<mlevel, Gnodes, Gedges, processingList, level, idx, node,
                   successors, run, input, levels1, deps1>>

\* Lines 157-158 and 146-147: the wave ends, the next one starts.
EndWave ==
    /\ pc = "loop"
    /\ Len(processingList) > 0
    /\ idx = Len(processingList)
    /\ level < MaxLevel
    /\ processingList' = NextFrontier(processingList, temp)
    /\ temp' = <<>>
    /\ level' = level + 1
    /\ idx' = 0
    /\ UNCHANGED <<dependents, mlevel, Gnodes, Gedges, glevel, node, successors,
                   todo, pc, run, input, levels1, deps1, lastPrune>>

\* Lines 160-163: the frontier is empty, the levels go to the records.
CopyLevels ==
    /\ pc = "loop"
    /\ Len(processingList) = 0
    /\ mlevel' = [m \in Modules |-> glevel[m]]
    /\ pc' = "done"
    /\ UNCHANGED <<dependents, Gnodes, Gedges, glevel, processingList, temp,
                   level, idx, node, successors, todo, run, input, levels1,
                   deps1, lastPrune>>

\* calculateLevels is called again on the records it returned.
Rerun ==
    /\ pc = "done"
    /\ run = 1
    /\ run' = 2
    /\ levels1' = mlevel
    /\ deps1' = dependents
    /\ pc' = "start"
    /\ UNCHANGED <<dependents, mlevel, Gnodes, Gedges, glevel, processingList,
                   temp, level, idx, node, successors, todo, input, lastPrune>>

Next ==
    \/ BuildGraph
    \/ NextNode
    \/ ProcessSuccessor
    \/ EndWave
    \/ CopyLevels
    \/ Rerun

Spec == Init /\ [][Next]_vars

SpecAny == InitAny /\ [][Next]_vars

\* Acyclic inputs over the module set, no entry listed twice.
InitNoDup ==
    \E E \in SUBSET {e \in Modules \X Modules : e[1] < e[2]} :
        /\ Acyclic(E)
        /\ InitWith([m \in Modules |-> DepList(m, E, NoEdge, 1)])

\* The code is sequential: a step that can be taken is taken.  A name listed
\* twice adds no edge to G, so the wave loop runs as on the list without it.
FairSpec == InitNoDup /\ [][Next]_vars /\ WF_vars(Next)

(***************************************************************************)
(* Reference notions the properties are stated with.                       *)
(***************************************************************************)

\* The dependents lists the current call of calculateLevels was given.
CallInput == IF run = 1 THEN input ELSE deps1

InputEdges == EdgesOf(input)

NoDuplicates(deps) ==
    \A m \in Modules : \A i, j \in 1..Len(deps[m]) :
        i # j => deps[m][i] # deps[m][j]

HasStray(deps) == \E m \in Modules : Stray \in Range(deps[m])

\* Modules without incoming edges.
Sources(E) == {n \in Modules : \A m \in Names : <<m, n>> \notin E}

Max(S) == CHOOSE x \in S : \A y \in S : y <= x

\* 1 + the number of edges of the longest path of E from a source to m.
LongestPathLevel(E, m) ==
    Max({Len(p) : p \in UNION {SimplePaths(E, r, m) : r \in Sources(E)}})

\* There is a path of two or more edges from a to d.
LongerPath(E, a, d) == \E p \in SimplePaths(E, a, d) : Len(p) >= 3

Count(s, d) == Cardinality({i \in 1..Len(s) : s[i] = d})

\* The set S as a list in ascending order.
RECURSIVE Ascending(_)
Ascending(S) ==
    IF S = {} THEN <<>>
    ELSE LET x == CHOOSE y \in S : \A z \in S : y <= z
         IN  <<x>> \o Ascending(S \ {x})

\* The propagation of lines 145-158 with every list taken in ascending order
\* of the names: the successors succ of one node, from the j-th on.
RECURSIVE RefSuccessors(_, _, _, _, _)
RefSuccessors(succ, j, lvl, gl, tmp) ==
    IF j > Len(succ) THEN [gl |-> gl, tmp |-> tmp]
    ELSE RefSuccessors(succ, j + 1, lvl, SetLevel(gl, succ[j], lvl),
                       AppendNew(tmp, succ[j]))

\* The nodes of the frontier pl, from the k-th on.
RECURSIVE RefNodes(_, _, _, _, _, _)
RefNodes(E, pl, k, lvl, gl, tmp) ==
    IF k > Len(pl) THEN [gl |-> gl, tmp |-> tmp]
    ELSE LET r == RefSuccessors(Ascending({s \in Names : <<pl[k], s>> \in E}),
                                1, WaveLevel(lvl, k), gl, tmp)
         IN  RefNodes(E, pl, k + 1, lvl, r.gl, r.tmp)

\* The waves, from the frontier pl on.
RECURSIVE RefWaves(_, _, _, _)
RefWaves(E, pl, lvl, gl) ==
    IF pl = <<>> THEN gl
    ELSE LET r == RefNodes(E, pl, 1, lvl, gl, <<>>)
         IN  RefWaves(E, NextFrontier(pl, r.tmp), lvl + 1, r.gl)

\* The levels of the run that takes every list in ascending order.
RefLevels(E) ==
    LET N  == Modules \cup {e[2] : e \in E}
        gl == RefWaves(E, Ascending(Roots(N, E)), 2, [m \in Modules |-> 1])
    IN  [m \in Modules |-> gl[m]]

(***************************************************************************)
(* Properties.                                                             *)
(***************************************************************************)

C2_SurvivingEdgeRaisesLevel ==
    pc = "done" =>
        \A a \in Modules : \A b \in Range(dependents[a]) :
            b \in Modules /\ mlevel[b] > mlevel[a]

\* C2 witness: the call has returned, it removed an entry, and a module at
\* level 2 or more still lists a dependent.
C2_Witness ==
    /\ pc = "done"
    /\ \E m \in Modules : Len(dependents[m]) < Len(input[m])
    /\ \E a \in Modules : mlevel[a] >= 2 /\ dependents[a] # <<>>

\* C3: whenever a step removes destination d from the dependents list of
\* source s, the graph the call was given has a module i, different from s
\* and d, with an edge s -> i and a path from i to d.
C3_PrunedHasIntermediate ==
    [][\A s \in Modules : \A d \in Names :
          Count(dependents'[s], d) < Count(dependents[s], d) =>
              \E i \in Names \ {s, d} :
                  /\ <<s, i>> \in EdgesOf(CallInput)
                  /\ SimplePaths(EdgesOf(CallInput), i, d) # {}]_vars

\* C3 witness: a pruner call has just removed its destination.
C3_Witness ==
    /\ lastPrune[1] \in Modules
    /\ Count(dependents[lastPrune[1]], lastPrune[2])
           < Count(lastPrune[3], lastPrune[2])

\* C4: the second call, made on the output of the first, writes the same
\* level for every module as the first.
C4_RerunSameLevels ==
    (pc = "done" /\ run = 2) => mlevel = levels1

\* C4 witness: the second call has returned, the first one had removed an
\* entry, and some module is at level 3 or more.
C4_Witness ==
    /\ pc = "done"
    /\ run = 2
    /\ deps1 # input
    /\ \E m \in Modules : mlevel[m] >= 3

C6_LevelsIndependentOfOrder ==
    pc = "done" => mlevel = RefLevels(EdgesOf(CallInput))

\* C6 witness: a call has returned whose first frontier held two or more
\* roots, and some module is at level 3 or more.
C6_Witness ==
    /\ pc = "done"
    /\ Cardinality(Roots(Gnodes, Gedges)) >= 2
    /\ \E m \in Modules : mlevel[m] >= 3

\* C7 as stated: when a dependents list holds a name outside the module
\* set, calculateLevels does not return and the name is no node of G.
C7_StrayNameAborts ==
    HasStray(input) => (pc # "done" /\ Stray \notin Gnodes)

\* C8 as stated: calculateLevels never returns with levels written when the
\* graph it was given has a cycle.
C8_CyclicNeverCompletes ==
    pc = "done" => Acyclic(EdgesOf(CallInput))

\* C9: on an acyclic input the wave loop ends: level is 2 when the loop
\* starts and changes only by +1 at the end of a wave, there are at most
\* NumModules waves, the levels are copied to the records only when the
\* frontier is empty, and the loop leads to the return.
C9_WavesTerminate ==
    /\ [](level <= NumModules + 2)
    /\ [][pc = "start" => level' = 2]_vars
    /\ [][(pc # "start" /\ level' # level) =>
             /\ level' = level + 1
             /\ pc = "loop"
             /\ idx = Len(processingList)]_vars
    /\ [][mlevel' # mlevel =>
             (pc = "loop" /\ processingList = <<>> /\ pc' = "done")]_vars
    /\ [](pc = "loop" => <>(pc = "done"))

\* C9 witness: a call returned after exactly NumModules waves.
C9_Witness ==
    /\ pc = "done"
    /\ level = NumModules + 2

\* C10: for an acyclic input whose lists hold no name twice, after the call
\* an entry d of A's input list is left in A.dependents exactly when the
\* input graph has no path of two or more edges from A to d, and nothing
\* else is in the list.
C10_TransitiveReduction ==
    (pc = "done" /\ NoDuplicates(input)) =>
        \A a \in Modules : \A d \in Names :
            d \in Range(dependents[a]) <=>
                (<<a, d>> \in InputEdges /\ ~LongerPath(InputEdges, a, d))

\* C10 witness: the call has returned on an input without duplicates in
\* which a removed relation has two longest paths of the same length.
C10_Witness ==
    /\ pc = "done"
    /\ run = 1
    /\ NoDuplicates(input)
    /\ \E a \in Modules : \E d \in Range(input[a]) :
          /\ d \notin Range(dependents[a])
          /\ Cardinality(LongestPaths(InputEdges, a, d)) >= 2

====
